---------------------------- MODULE Spec2Model ----------------------------
(***************************************************************************)
(* Adaptive subdivision of a cubic Bezier curve (src/src/lib.rs).          *)
(*                                                                         *)
(* adaptive_bezier_curve pushes the start point, runs the recursive        *)
(* adaptive_bezier_curve_impl and pushes the end point.  The recursion is  *)
(* modelled with an explicit call stack, one action per step of the code.  *)
(*                                                                         *)
(* Numbers.  The code computes in f64.  Coordinates are modelled as exact  *)
(* fixed-point numbers with FRAC_LIMBS * LIMB_BITS = 45 fractional bits,   *)
(* held as little-endian sequences of limbs in base 2^15 (TLC's own        *)
(* integers have 32 bits).  Every midpoint of the de Casteljau chain of an *)
(* input with integer coordinates is exact in that format down to level 14 *)
(* and is exact in f64 as well.  Products are exact here; scale is a power *)
(* of two, 2^scale_exp, so that (1 / scale)^2 is exact in f64 unless it    *)
(* underflows, which is modelled.  On the inputs drawn below, every        *)
(* comparison of the code gives the same result in f64 as in exact         *)
(* arithmetic.                                                             *)
(***************************************************************************)
EXTENDS Integers, Sequences, FiniteSets, TLC

\* ------------------------------------------------------------------------
\* Exact arithmetic: naturals as little-endian limb sequences, no high zero
\* limb, zero is << >>.

LIMB_BITS == 15
BASE == 2^LIMB_BITS
FRAC_LIMBS == 3

RECURSIVE BNorm(_)
BNorm(a) ==
    IF a = << >> THEN << >>
    ELSE IF a[Len(a)] = 0 THEN BNorm(SubSeq(a, 1, Len(a) - 1))
    ELSE a

Limb(a, i) == IF i <= Len(a) THEN a[i] ELSE 0

RECURSIVE BAddC(_, _, _, _)
BAddC(a, b, i, c) ==
    IF i > Len(a) /\ i > Len(b)
    THEN (IF c = 0 THEN << >> ELSE <<c>>)
    ELSE LET x == Limb(a, i) + Limb(b, i) + c
         IN  <<x % BASE>> \o BAddC(a, b, i + 1, x \div BASE)

BAdd(a, b) == BAddC(a, b, 1, 0)

RECURSIVE BSubC(_, _, _, _)
BSubC(a, b, i, c) ==
    IF i > Len(a) THEN << >>
    ELSE LET x == Limb(a, i) - Limb(b, i) - c
         IN  IF x < 0 THEN <<x + BASE>> \o BSubC(a, b, i + 1, 1)
             ELSE <<x>> \o BSubC(a, b, i + 1, 0)

RECURSIVE BLessAt(_, _, _)
BLessAt(a, b, i) ==
    IF i = 0 THEN FALSE
    ELSE IF a[i] # b[i] THEN a[i] < b[i]
    ELSE BLessAt(a, b, i - 1)

BLess(a, b) ==
    IF Len(a) # Len(b) THEN Len(a) < Len(b) ELSE BLessAt(a, b, Len(a))

BLeq(a, b) == ~BLess(b, a)

\* a - b for a >= b
BSub(a, b) == BNorm(BSubC(a, b, 1, 0))

BAbsDiff(a, b) == IF BLess(a, b) THEN BSub(b, a) ELSE BSub(a, b)

RECURSIVE BMulLimbC(_, _, _, _)
BMulLimbC(a, m, i, c) ==
    IF i > Len(a) THEN (IF c = 0 THEN << >> ELSE <<c>>)
    ELSE LET x == a[i] * m + c
         IN  <<x % BASE>> \o BMulLimbC(a, m, i + 1, x \div BASE)

BMulLimb(a, m) == IF m = 0 THEN << >> ELSE BMulLimbC(a, m, 1, 0)

BShiftLimbs(a, n) == IF a = << >> THEN << >> ELSE [i \in 1..n |-> 0] \o a

RECURSIVE BMulAt(_, _, _)
BMulAt(a, b, i) ==
    IF i > Len(a) THEN << >>
    ELSE BAdd(BMulLimb(b, a[i]), BShiftLimbs(BMulAt(a, b, i + 1), 1))

BMul(a, b) == BMulAt(a, b, 1)

\* a * 2^k
BShiftBits(a, k) == BShiftLimbs(BMulLimb(a, 2^(k % LIMB_BITS)), k \div LIMB_BITS)

\* a / 2.0
BHalf(a) ==
    BNorm([i \in 1..Len(a) |->
              (a[i] \div 2) + (Limb(a, i + 1) % 2) * (BASE \div 2)])

\* the integer n, 0 <= n < BASE, as a fixed-point number
FromInt(n) == BShiftLimbs(IF n = 0 THEN << >> ELSE <<n>>, FRAC_LIMBS)

\* ------------------------------------------------------------------------
\* Program constants

\* faulty variants: a limit that is too large
RECUSION_LIMIT_plus1 == 8 + 1
RECUSION_LIMIT_plus2 == 8 + 2

RECUSION_LIMIT == 8

\* 1.19209290e-7 as an f64 is 4503599644341501 * 2^-75.  It is compared
\* with products of two coordinates, whose unit is 2^-90: the limbs are
\* those of 4503599644341501 * 2^15.
FLOAT_EPSILON == <<0, 29949, 517, 0, 128>>

PATH_DISTANCE_EPSILON == 1

\* faulty variants: an angle tolerance that is not below the guard (0.02), a guard
\* that is not above the angle tolerance (0.0)
M_ANGLE_TOLERANCE_on == 1 + 1
CURVE_ANGLE_TOERANCE_EPSILON_off == 1 - 1

\* in hundredths: 0.01, 0.0, 0.0
CURVE_ANGLE_TOERANCE_EPSILON == 1
M_ANGLE_TOLERANCE == 0
M_CUSP_LIMIT == 0

\* the smallest positive f64 is 2^-1074; a smaller power of two rounds to 0
F64_MIN_EXP == 1074

\* ------------------------------------------------------------------------
\* Vector2

Vec(ix, iy) == [x |-> FromInt(ix), y |-> FromInt(iy)]

\* (a + b) / 2.0
Mid(a, b) == [x |-> BHalf(BAdd(a.x, b.x)), y |-> BHalf(BAdd(a.y, b.y))]

\* a - b on scalars, as sign and magnitude
SSub(a, b) == [neg |-> BLess(a, b), mag |-> BAbsDiff(a, b)]

\* a - b
VSub(a, b) == [x |-> SSub(a.x, b.x), y |-> SSub(a.y, b.y)]

\* |u.perp(v)| = |u.x * v.y - u.y * v.x|
perp_abs(u, v) ==
    LET m1 == BMul(u.x.mag, v.y.mag)
        m2 == BMul(u.y.mag, v.x.mag)
        n1 == u.x.neg # v.y.neg
        n2 == u.y.neg # v.x.neg
    IN  IF m1 = << >> THEN m2
        ELSE IF m2 = << >> THEN m1
        ELSE IF n1 = n2 THEN BAbsDiff(m1, m2)
        ELSE BAdd(m1, m2)

\* u.norm_squared()
norm_squared(u) == BAdd(BMul(u.x.mag, u.x.mag), BMul(u.y.mag, u.y.mag))

\* ------------------------------------------------------------------------
\* distance_tolerance = (PATH_DISTANCE_EPSILON / scale).powi(2), for
\* scale = 2^e: the number num * 2^exp, which is 0 when the f64 underflows

\* faulty variant: PATH_DISTANCE_EPSILON * scale, the tolerance grows with the scale
DistanceTolerance_times(e) ==
    [num |-> PATH_DISTANCE_EPSILON * PATH_DISTANCE_EPSILON, exp |-> 2 * e]

\* faulty variant: the square is missing
DistanceTolerance_unsquared(e) ==
    IF e > F64_MIN_EXP
    THEN [num |-> 0, exp |-> 0]
    ELSE [num |-> PATH_DISTANCE_EPSILON, exp |-> -e]

DistanceTolerance(e) ==
    IF 2 * e > F64_MIN_EXP
    THEN [num |-> 0, exp |-> 0]
    ELSE [num |-> PATH_DISTANCE_EPSILON * PATH_DISTANCE_EPSILON, exp |-> -(2 * e)]

\* t * r in the unit of a product of four coordinates, for r a product of two
TolTimes(t, r) == BShiftLimbs(BMulLimb(r, t.num), 2 * FRAC_LIMBS)

\* l <= t * r, for l a product of four coordinates and r of two
LeqTolTimes(l, t, r) ==
    IF t.exp <= 0
    THEN BLeq(BShiftBits(l, -t.exp), TolTimes(t, r))
    ELSE BLeq(l, BShiftBits(TolTimes(t, r), t.exp))

\* faulty variant: the comparison of the collinear case is turned around
LessTol_swapped(l, t) ==
    IF t.exp <= 0
    THEN BLess(TolTimes(t, <<1>>), BShiftBits(l, -t.exp))
    ELSE BLess(BShiftBits(TolTimes(t, <<1>>), t.exp), l)

\* l < t, for l a product of two coordinates
LessTol(l, t) ==
    IF t.exp <= 0
    THEN BLess(BShiftBits(l, -t.exp), TolTimes(t, <<1>>))
    ELSE BLess(l, BShiftBits(TolTimes(t, <<1>>), t.exp))

\* ------------------------------------------------------------------------
\* adaptive_bezier_curve_impl: the body of one call

\* the de Casteljau chain of a call with control points p1..p4
Chain(f) ==
    LET p12 == Mid(f.p1, f.p2)
        p23 == Mid(f.p2, f.p3)
        p34 == Mid(f.p3, f.p4)
        p123 == Mid(p12, p23)
        p234 == Mid(p23, p34)
    IN  [p12 |-> p12, p23 |-> p23, p34 |-> p34, p123 |-> p123,
         p234 |-> p234, p1234 |-> Mid(p123, p234)]

\* which branch of the flatness test a call at level > 0 takes, and whether
\* the branch's distance test passes
Verdict(f, tol) ==
    LET d == VSub(f.p4, f.p1)
        d2 == perp_abs(VSub(f.p2, f.p4), d)
        d3 == perp_abs(VSub(f.p3, f.p4), d)
        s2 == BLess(FLOAT_EPSILON, d2)
        s3 == BLess(FLOAT_EPSILON, d3)
    IN  IF s2 /\ s3 THEN
            [kind |-> "general",
             pass |-> LET s == BAdd(d2, d3)
                      IN LeqTolTimes(BMul(s, s), tol, norm_squared(d))]
        ELSE IF s2 THEN
            [kind |-> "p2",
             pass |-> LeqTolTimes(BMul(d2, d2), tol, norm_squared(d))]
        ELSE IF s3 THEN
            [kind |-> "p3",
             pass |-> LeqTolTimes(BMul(d3, d3), tol, norm_squared(d))]
        ELSE
            [kind |-> "collinear",
             pass |-> LET dd == VSub(Chain(f).p1234, Mid(f.p1, f.p4))
                      IN LessTol(norm_squared(dd), tol)]

\* What a call does after its distance test: push some points and return,
\* or fall through to the subdivision.  The angle and cusp conditions read
\* atan2 values, which are not computed here: where the code reaches them,
\* every result they can give is a possible outcome.
FallThrough == [stop |-> FALSE, push |-> << >>]
Stop(pts) == [stop |-> TRUE, push |-> pts]

AngleSkipped == M_ANGLE_TOLERANCE < CURVE_ANGLE_TOERANCE_EPSILON
CuspOn == M_CUSP_LIMIT # 0

PassOutcomes(kind, f) ==
    LET p1234 == Chain(f).p1234 IN
    CASE kind = "general" ->
            IF AngleSkipped THEN {Stop(<<p1234>>)}
            ELSE {Stop(<<p1234>>), FallThrough}
                 \cup (IF CuspOn THEN {Stop(<<f.p2>>), Stop(<<f.p3>>)} ELSE {})
      [] kind = "p2" ->
            IF AngleSkipped THEN {Stop(<<p1234>>)}
            ELSE {Stop(<<f.p2, f.p3>>), FallThrough}
                 \cup (IF CuspOn THEN {Stop(<<f.p2>>)} ELSE {})
      [] kind = "p3" ->
            IF AngleSkipped THEN {Stop(<<p1234>>)}
            ELSE {Stop(<<f.p2, f.p3>>), FallThrough}
                 \cup (IF CuspOn THEN {Stop(<<f.p3>>)} ELSE {})
      [] kind = "collinear" -> {Stop(<<p1234>>)}

\* faulty variant: the call at level 0 runs the flatness test like any other
Decision_tests_level0(f, tol) ==
    LET v == Verdict(f, tol)
    IN  [label |-> <<v.kind, v.pass>>,
         outcomes |-> IF v.pass THEN PassOutcomes(v.kind, f) ELSE {FallThrough}]

\* one call at level <= RECUSION_LIMIT, lines 59-151: the branch it takes
\* (recorded in seen) and what it can do next
Decision(f, tol) ==
    IF f.level = 0
    THEN [label |-> <<"level0", FALSE>>, outcomes |-> {FallThrough}]
    ELSE LET v == Verdict(f, tol)
         IN  [label |-> <<v.kind, v.pass>>,
              outcomes |-> IF v.pass THEN PassOutcomes(v.kind, f) ELSE {FallThrough}]

\* ------------------------------------------------------------------------
\* Inputs

\* control points (start, c1, c2, end) with integer coordinates: the curve
\* of the test, four coincident points, a curve whose halves have one
\* control point on the chord, a collinear curve that doubles back, and a
\* large arch
GOLDEN == << <<20, 20>>, <<100, 159>>, <<50, 200>>, <<200, 20>> >>
DEGENERATE == << <<3, 3>>, <<3, 3>>, <<3, 3>>, <<3, 3>> >>
ZIGZAG == << <<0, 0>>, <<1, 1>>, <<0, 1>>, <<1, 0>> >>
FOLDED == << <<0, 0>>, <<3, 0>>, <<0, 0>>, <<3, 0>> >>
ARCH == << <<0, 0>>, <<0, 16384>>, <<16384, 16384>>, <<16384, 0>> >>

Curves == {GOLDEN, DEGENERATE, ZIGZAG, FOLDED, ARCH}

\* scale = 2^e for e in 0..MaxScaleExp
MaxScaleExp == 4

\* the least e for which (1 / 2^e)^2 underflows to 0
UnderflowExp == (F64_MIN_EXP \div 2) + 1

Inputs ==
    (Curves \X (0..MaxScaleExp))
        \cup ({DEGENERATE} \X {UnderflowExp - 1, UnderflowExp})

\* ------------------------------------------------------------------------
\* State

VARIABLES
    start, c1, c2, end,     \* the control points passed to adaptive_bezier_curve
    scale_exp,              \* scale = 2^scale_exp
    pc,                     \* "entry", "impl", "done": where adaptive_bezier_curve is
    distance_tolerance,
    sample_points,
    stack,                  \* the calls of adaptive_bezier_curve_impl in progress
    tags,                   \* tags[i]: the curve parameter of sample_points[i]
    seen,                   \* the branches the calls of this run have taken
    calls,                  \* the calls of adaptive_bezier_curve_impl made by this run
    prev                    \* the earlier runs on the same curve: scale and length

vars == <<start, c1, c2, end, scale_exp, pc, distance_tolerance, sample_points,
          stack, tags, seen, calls, prev>>

inputs == <<start, c1, c2, end>>

\* the curve parameter 1, in the unit of the tags
PARAM_ONE == 2^12

Top == stack[Len(stack)]
Pop == SubSeq(stack, 1, Len(stack) - 1)

\* faulty variant: the first recursive call is made on the right half
LeftChild_right(f) ==
    LET c == Chain(f)
    IN  [p1 |-> c.p1234, p2 |-> c.p234, p3 |-> c.p34, p4 |-> f.p4,
         level |-> f.level + 1, at |-> "enter",
         lo |-> (f.lo + f.hi) \div 2, hi |-> f.hi]

\* line 153: the call on the left half
LeftChild(f) ==
    LET c == Chain(f)
    IN  [p1 |-> f.p1, p2 |-> c.p12, p3 |-> c.p123, p4 |-> c.p1234,
         level |-> f.level + 1, at |-> "enter",
         lo |-> f.lo, hi |-> (f.lo + f.hi) \div 2]

\* line 154: the call on the right half
RightChild(f) ==
    LET c == Chain(f)
    IN  [p1 |-> c.p1234, p2 |-> c.p234, p3 |-> c.p34, p4 |-> f.p4,
         level |-> f.level + 1, at |-> "enter",
         lo |-> (f.lo + f.hi) \div 2, hi |-> f.hi]

Init ==
    /\ \E i \in Inputs :
          /\ start = i[1][1] /\ c1 = i[1][2] /\ c2 = i[1][3] /\ end = i[1][4]
          /\ scale_exp = i[2]
    /\ pc = "entry"
    /\ distance_tolerance = [num |-> 0, exp |-> 0]
    /\ sample_points = << >>
    /\ stack = << >>
    /\ tags = << >>
    /\ seen = {}
    /\ calls = 0
    /\ prev = << >>

\* adaptive_bezier_curve, lines 31-42
Enter ==
    /\ pc = "entry"
    /\ pc' = "impl"
    /\ distance_tolerance' = DistanceTolerance(scale_exp)
    /\ sample_points' = <<Vec(start[1], start[2])>>
    /\ tags' = <<0>>
    /\ stack' = << [p1 |-> Vec(start[1], start[2]), p2 |-> Vec(c1[1], c1[2]),
                    p3 |-> Vec(c2[1], c2[2]), p4 |-> Vec(end[1], end[2]),
                    level |-> 0, at |-> "enter", lo |-> 0, hi |-> PARAM_ONE] >>
    /\ calls' = 1
    /\ UNCHANGED <<inputs, scale_exp, seen, prev>>

\* lines 56-58
ImplCutoff ==
    /\ pc = "impl" /\ stack # << >>
    /\ Top.at = "enter"
    /\ Top.level > RECUSION_LIMIT
    /\ stack' = Pop
    /\ seen' = seen \cup {<<"cutoff", FALSE>>}
    /\ UNCHANGED <<inputs, scale_exp, pc, distance_tolerance, sample_points, tags, calls, prev>>

\* lines 59-150, a branch that pushes and returns
ImplFlat ==
    /\ pc = "impl" /\ stack # << >>
    /\ Top.at = "enter"
    /\ Top.level <= RECUSION_LIMIT
    /\ LET dec == Decision(Top, distance_tolerance)
       IN  /\ \E o \in dec.outcomes :
                 /\ o.stop
                 /\ sample_points' = sample_points \o o.push
                 /\ tags' = tags \o [i \in 1..Len(o.push) |-> (Top.lo + Top.hi) \div 2]
           /\ seen' = seen \cup {dec.label}
    /\ stack' = Pop
    /\ UNCHANGED <<inputs, scale_exp, pc, distance_tolerance, calls, prev>>

\* lines 59-153, no branch returned: the first recursive call
ImplSubdivide ==
    /\ pc = "impl" /\ stack # << >>
    /\ Top.at = "enter"
    /\ Top.level <= RECUSION_LIMIT
    /\ LET dec == Decision(Top, distance_tolerance)
       IN  /\ \E o \in dec.outcomes : ~o.stop
           /\ seen' = seen \cup {dec.label}
    /\ stack' = Append([stack EXCEPT ![Len(stack)].at = "left"], LeftChild(Top))
    /\ calls' = calls + 1
    /\ UNCHANGED <<inputs, scale_exp, pc, distance_tolerance, sample_points, tags, prev>>

\* line 154: the first call has returned, the second recursive call
ImplSecond ==
    /\ pc = "impl" /\ stack # << >>
    /\ Top.at = "left"
    /\ stack' = Append([stack EXCEPT ![Len(stack)].at = "right"], RightChild(Top))
    /\ calls' = calls + 1
    /\ UNCHANGED <<inputs, scale_exp, pc, distance_tolerance, sample_points, tags,
                   seen, prev>>

\* line 155: the second call has returned
ImplReturn ==
    /\ pc = "impl" /\ stack # << >>
    /\ Top.at = "right"
    /\ stack' = Pop
    /\ UNCHANGED <<inputs, scale_exp, pc, distance_tolerance, sample_points, tags,
                   seen, calls, prev>>

\* faulty variant: the end point is not pushed
Leave_without_end ==
    /\ pc = "impl" /\ stack = << >>
    /\ pc' = "done"
    /\ UNCHANGED <<inputs, scale_exp, distance_tolerance, sample_points, stack,
                   tags, seen, calls, prev>>

\* adaptive_bezier_curve, lines 43-44
Leave ==
    /\ pc = "impl" /\ stack = << >>
    /\ pc' = "done"
    /\ sample_points' = Append(sample_points, Vec(end[1], end[2]))
    /\ tags' = Append(tags, PARAM_ONE)
    /\ UNCHANGED <<inputs, scale_exp, distance_tolerance, stack, seen, calls, prev>>

\* the caller flattens the same curve again at an equal or larger scale
Rerun ==
    /\ pc = "done" /\ prev = << >>
    /\ \E e \in 0..MaxScaleExp :
          /\ e >= scale_exp
          /\ scale_exp' = e
    /\ prev' = <<[scale_exp |-> scale_exp, len |-> Len(sample_points)]>>
    /\ pc' = "entry"
    /\ distance_tolerance' = [num |-> 0, exp |-> 0]
    /\ sample_points' = << >>
    /\ stack' = << >>
    /\ tags' = << >>
    /\ seen' = {}
    /\ calls' = 0
    /\ UNCHANGED inputs

Next ==
    \/ Enter
    \/ ImplCutoff
    \/ ImplFlat
    \/ ImplSubdivide
    \/ ImplSecond
    \/ ImplReturn
    \/ Leave

Spec == Init /\ [][Next]_vars

\* two runs on one curve, the second at an equal or larger scale
InitScale == Init /\ scale_exp <= MaxScaleExp
SpecScale == InitScale /\ [][Next \/ Rerun]_vars

\* ------------------------------------------------------------------------
\* Vocabulary of the properties

Cutoff == <<"cutoff", FALSE>>
PassLabels == {<<k, TRUE>> : k \in {"general", "p2", "p3", "collinear"}}

Done == pc = "done"

\* a call at level 1..RECUSION_LIMIT is about to run its flatness test
AtTest ==
    /\ pc = "impl" /\ stack # << >>
    /\ Top.at = "enter"
    /\ Top.level \in 1..RECUSION_LIMIT

\* ... and takes the branch `kind` with the distance test passing or failing
Takes(kind, pass) ==
    AtTest /\ Verdict(Top, distance_tolerance) = [kind |-> kind, pass |-> pass]

\* the call on top pushes exactly pts and returns
PushesAndReturns(pts) ==
    sample_points' = sample_points \o pts /\ stack' = Pop

\* the call on top pushes nothing and makes its first recursive call
RecursesLeft ==
    /\ sample_points' = sample_points
    /\ Len(stack') = Len(stack) + 1
    /\ stack'[Len(stack')].level = Top.level + 1
    /\ stack'[Len(stack')].p1 = Top.p1
    /\ stack'[Len(stack')].p4 = Chain(Top).p1234

\* the call on top, back from its first recursive call, makes the second
RecursesRight ==
    /\ sample_points' = sample_points
    /\ Len(stack') = Len(stack) + 1
    /\ stack'[Len(stack')].level = Top.level + 1
    /\ stack'[Len(stack')].p1 = Chain(Top).p1234
    /\ stack'[Len(stack')].p4 = Top.p4

AllCoincide == start = c1 /\ c1 = c2 /\ c2 = end

\* the run has a next step: the guards of Enter, ImplCutoff, ImplFlat or
\* ImplSubdivide, ImplSecond, ImplReturn and Leave
CanStep ==
    \/ pc = "entry"
    \/ /\ pc = "impl"
       /\ \/ stack = << >>
          \/ Top.at \in {"left", "right"}
          \/ Top.at = "enter" /\ Top.level > RECUSION_LIMIT
          \/ /\ Top.at = "enter" /\ Top.level <= RECUSION_LIMIT
             /\ Decision(Top, distance_tolerance).outcomes # {}

\* ------------------------------------------------------------------------
\* C1  Endpoint exactness: from the first push on, the first element of the
\* sequence is start, and the returned sequence ends with end, whatever the
\* recursive step pushed in between.
C1_EndpointExact ==
    /\ pc # "entry" => sample_points[1] = Vec(start[1], start[2])
    /\ Done => /\ Len(sample_points) >= 2
               /\ sample_points[Len(sample_points)] = Vec(end[1], end[2])

\* a run has returned in which the recursive step pushed nothing, with
\* distinct endpoints
C1_Witness ==
    Done /\ Len(sample_points) = 2 /\ start # end
         /\ sample_points = <<Vec(start[1], start[2]), Vec(end[1], end[2])>>

\* C2  Ordering: each pushed point carries the curve parameter at which it
\* lies, and the parameters of the sequence are strictly increasing at every
\* moment of the run.
C2_StrictlyIncreasingParameters ==
    /\ Len(tags) = Len(sample_points)
    /\ \A i \in 1..(Len(tags) - 1) : tags[i] < tags[i + 1]

\* a returned sequence with interior points pushed by calls at several levels
C2_Witness ==
    /\ Done
    /\ Len(sample_points) >= 17
    /\ \E i, j \in 2..(Len(tags) - 1) : tags[i] % 256 = 0 /\ tags[j] % 256 # 0

\* C3  Boundedness: the sequence never holds more than 2 + 2^(8+1) = 514
\* points.
C3_AtMost514Points == Len(sample_points) <= 2 + 2^(8 + 1)

\* the longest sequence there is: every call at level 8 pushes one point
C3_Witness == Done /\ Len(sample_points) = 2 + 2^RECUSION_LIMIT

\* C4 as stated  Scale monotonicity: of two runs on one curve, the one at
\* the larger scale returns at least as many points.
C4_ScaleMonotone ==
    (Done /\ prev # << >>) => Len(sample_points) >= prev[1].len

\* C4 as amended: ... provided no call of the run at the larger scale is
\* stopped by the recursion limit.
C4_ScaleMonotoneWithoutCutoff ==
    (Done /\ prev # << >> /\ Cutoff \notin seen)
        => Len(sample_points) >= prev[1].len

\* a second run at a strictly larger scale that returned strictly more
\* points, without reaching the recursion limit
C4_Witness ==
    /\ Done /\ prev # << >> /\ Cutoff \notin seen
    /\ scale_exp > prev[1].scale_exp
    /\ Len(sample_points) > prev[1].len

\* C5 as stated  Recursion depth: at most 9 calls of
\* adaptive_bezier_curve_impl are in progress at any time.
C5_DepthAtMost9 == Len(stack) <= 9

\* C5 as amended: at most 10 calls are in progress, the call at level l
\* being the (l+1)-th of the chain: levels 0 to 9.  A run makes fewer than
\* 2^10 calls and is never stuck before it returns.
C5_DepthAtMost10 ==
    /\ Len(stack) <= 10
    /\ \A i \in 1..Len(stack) : stack[i].level = i - 1
    /\ calls < 2^(RECUSION_LIMIT + 2)
    /\ Done \/ CanStep

\* a call at level 9 has been entered: ten calls are in progress
C5_Witness == Len(stack) = 10 /\ Top.level = 9 /\ Top.at = "enter"

\* C6 as stated  Degenerate input: with four coincident control points no
\* call is stopped by the recursion limit, every element of the sequence is
\* that point, and the returned sequence has at least two elements.
C6_DegenerateNeverCutOff ==
    AllCoincide =>
        /\ Cutoff \notin seen
        /\ \A i \in 1..Len(sample_points) : sample_points[i] = Vec(start[1], start[2])
        /\ Done => Len(sample_points) >= 2

\* C6 as amended: with four coincident control points the run is never
\* stuck before it returns and makes a bounded number of calls, every
\* element of the sequence is that point and the returned sequence has at
\* least two elements; provided distance_tolerance has not underflowed to 0,
\* no call is stopped by the recursion limit: the two calls at level 1 push
\* and return.  With a tolerance of 0 the result is the two endpoints.
C6_Degenerate ==
    AllCoincide =>
        /\ Done \/ CanStep
        /\ calls < 2^(RECUSION_LIMIT + 2)
        /\ \A i \in 1..Len(sample_points) : sample_points[i] = Vec(start[1], start[2])
        /\ Done => Len(sample_points) >= 2
        /\ 2 * scale_exp <= F64_MIN_EXP =>
              /\ Cutoff \notin seen /\ calls <= 3
              /\ Done => Len(sample_points) = 4
        /\ (2 * scale_exp > F64_MIN_EXP /\ Done) => Len(sample_points) = 2

\* a degenerate run has returned start, the point pushed by the two calls at
\* level 1, and end, at the largest scale whose tolerance is not 0
C6_Witness ==
    /\ AllCoincide /\ Done
    /\ 2 * scale_exp = F64_MIN_EXP
    /\ Len(sample_points) = 4
    /\ seen = {<<"level0", FALSE>>, <<"collinear", TRUE>>}

\* C7  Golden values: the curve of the test at scale 2.0 gives the 21 points
\* of the test's answer, each coordinate within FLOAT_EPSILON.
ANSWER_FRAC_BITS == 18

\* the points of `answer`, each coordinate as <<integer part, numerator of
\* the fraction over 2^ANSWER_FRAC_BITS>>
answer ==
    << << <<20, 0>>, <<20, 0>> >>,
       << <<27, 33872>>, <<32, 194088>> >>,
       << <<39, 90224>>, <<56, 107064>> >>,
       << <<53, 121728>>, <<87, 10688>> >>,
       << <<63, 260048>>, <<111, 75752>> >>,
       << <<69, 215024>>, <<123, 159224>> >>,
       << <<73, 238618>>, <<130, 183085>> >>,
       << <<76, 161566>>, <<134, 94575>> >>,
       << <<79, 98674>>, <<137, 37977>> >>,
       << <<82, 65782>>, <<139, 7387>> >>,
       << <<85, 78730>>, <<139, 259045>> >>,
       << <<88, 153358>>, <<140, 615>> >>,
       << <<92, 43362>>, <<139, 12625>> >>,
       << <<96, 26726>>, <<137, 27027>> >>,
       << <<100, 119290>>, <<134, 37917>> >>,
       << <<105, 74750>>, <<130, 39391>> >>,
       << <<113, 145968>>, <<122, 43800>> >>,
       << <<126, 214736>>, <<107, 180072>> >>,
       << <<143, 20208>>, <<88, 172408>> >>,
       << <<174, 36224>>, <<51, 49856>> >>,
       << <<200, 0>>, <<20, 0>> >> >>

AnswerCoord(c) ==
    BAdd(FromInt(c[1]),
         BShiftBits(BNorm(<<c[2] % BASE, c[2] \div BASE>>),
                    FRAC_LIMBS * LIMB_BITS - ANSWER_FRAC_BITS))

\* (a - b).abs() < FLOAT_EPSILON
WithinEpsilon(a, b) ==
    BLess(BShiftLimbs(BAbsDiff(a, b), FRAC_LIMBS), FLOAT_EPSILON)

IsGoldenRun == <<start, c1, c2, end>> = GOLDEN /\ scale_exp = 1

C7_GoldenValues ==
    (IsGoldenRun /\ Done) =>
        /\ Len(sample_points) = Len(answer)
        /\ Len(answer) = 21
        /\ sample_points[1] = Vec(20, 20)
        /\ sample_points[21] = Vec(200, 20)
        /\ \A i \in 1..Len(answer) :
              /\ WithinEpsilon(sample_points[i].x, AnswerCoord(answer[i][1]))
              /\ WithinEpsilon(sample_points[i].y, AnswerCoord(answer[i][2]))

\* the run of the test has returned
C7_Witness == IsGoldenRun /\ Done /\ Len(sample_points) = 21

\* C8 as stated  The branch where only p2 is off the chord, on passing its
\* distance test, pushes p2 and returns; the branch where only p3 is off the
\* chord pushes p2 then p3 and returns.
C8_PushesControlPoints ==
    [][ /\ Takes("p2", TRUE) => PushesAndReturns(<<Top.p2>>)
        /\ Takes("p3", TRUE) => PushesAndReturns(<<Top.p2, Top.p3>>) ]_vars

\* C8 as amended: both branches, on passing their distance test, push
\* exactly one point, the midpoint p1234 of the call, and return.
C8_PushesMidpoint ==
    [][ /\ Takes("p2", TRUE) => PushesAndReturns(<<Chain(Top).p1234>>)
        /\ Takes("p3", TRUE) => PushesAndReturns(<<Chain(Top).p1234>>) ]_vars

\* a run in which both branches passed, one call each, has returned: start,
\* the two midpoints, end, and neither midpoint is a control point
C8_Witness ==
    /\ Done
    /\ seen = {<<"level0", FALSE>>, <<"p2", TRUE>>, <<"p3", TRUE>>}
    /\ Len(sample_points) = 4
    /\ \A i \in {2, 3} : sample_points[i] \notin {Vec(c1[1], c1[2]), Vec(c2[1], c2[2])}

\* the call at level 0 pushes nothing, runs no flatness test and makes both
\* recursive calls at level 1
Level0Step ==
    (pc = "impl" /\ Len(stack) = 1) =>
        /\ Top.level = 0
        /\ seen' \subseteq seen \cup {<<"level0", FALSE>>}
        /\ CASE Top.at = "enter" -> RecursesLeft
             [] Top.at = "left" -> RecursesRight
             [] Top.at = "right" -> sample_points' = sample_points /\ stack' = << >>

\* C9 as stated  Forced first subdivision: ... and the returned sequence has
\* at least 3 points.
C9_AlwaysInteriorPoint ==
    [][ Level0Step /\ (pc' = "done" => Len(sample_points') >= 3) ]_vars

\* C9 as amended: ... and the returned sequence has at least 3 points if
\* some call passed its flatness test; if none did, every branch ran into
\* the recursion limit and the sequence is just the two endpoints.
C9_InteriorPointIffSomeTestPassed ==
    [][ /\ Level0Step
        /\ pc' = "done" =>
              /\ Len(sample_points') >= 3 <=> seen' \cap PassLabels # {}
              /\ Len(sample_points') >= 2
              /\ seen' \cap PassLabels = {} => Cutoff \in seen' ]_vars

\* a run has returned with interior points, all pushed below level 0
C9_Witness ==
    /\ Done
    /\ <<"level0", FALSE>> \in seen
    /\ seen \cap PassLabels # {}
    /\ Len(sample_points) >= 3

\* C10  The distance test alone decides the general case: a call at level
\* 1..8 with d2 and d3 above FLOAT_EPSILON pushes exactly p1234 and returns
\* if (d2 + d3)^2 <= distance_tolerance * |p4 - p1|^2, and otherwise pushes
\* nothing and makes its two recursive calls at level + 1.
C10_DistanceTestDecides ==
    [][ /\ Takes("general", TRUE) => PushesAndReturns(<<Chain(Top).p1234>>)
        /\ Takes("general", FALSE) => RecursesLeft
        /\ (pc = "impl" /\ stack # << >> /\ Top.at = "left") => RecursesRight ]_vars

\* a run in which the general case both passed and failed has returned
C10_Witness ==
    Done /\ {<<"general", TRUE>>, <<"general", FALSE>>} \subseteq seen

====
